---- MODULE Spec2Model ----
(***************************************************************************)
(* Model of the stream loader src/loader/company_news_loader.py: the       *)
(* polling loop of main() over the two Redis streams (crawl:completed,      *)
(* crawl:records), the MySQL transaction it writes, its dead-letter stream  *)
(* and its shutdown evaluation.                                             *)
(*                                                                          *)
(* Strings that the code only compares are TLA+ strings; published_at,      *)
(* which the code slices (s[:10]), is a sequence of characters. A missing   *)
(* field (f.get(..) = None) and an empty string are both falsy in the code  *)
(* and are both written "" here, except where the code tells them apart.    *)
(***************************************************************************)
EXTENDS Integers, Sequences, FiniteSets, TLC

VARIABLES
    recStream,     \* crawl:records: the entries appended so far, id = position
    recLastId,     \* group db-loaders: last-delivered id
    recPending,    \* group db-loaders: delivered and not acked (the PEL)
    compStream,    \* crawl:completed: the sentinels appended so far
    compLastId,    \* group db-sentinels: last-delivered id
    compPending,   \* group db-sentinels: delivered and not acked
    dlq,           \* crawl:dlq: the dead-letter entries written so far
    recDeleted,    \* crawl:records: ids removed from the stream (XDEL, XTRIM)
    compDeleted,   \* crawl:completed: ids removed from the stream
    uniqueNews,    \* store schema: company_news has a unique key (company_id, url)
    REQUIRED_SOURCES, \* configuration: the required-sources set (empty when unset)
    COMPANY_MAP,   \* configuration: source key -> <<company_name, company_name_kr>>
    DELETE_RECORDS,   \* configuration: XDEL the record ids right after their XACK
    DELETE_SENTINELS, \* configuration: XDEL the sentinel ids right after their XACK
    TRIM_ON_EXIT,  \* configuration: XTRIM both streams when main() ends
    dbCompany,     \* committed rows of company, company_id = position
    dbNews,        \* committed rows of company_news
    txCompany,     \* company as the connection's open transaction sees it
    txNews,        \* company_news as the connection's open transaction sees it
    pc,            \* position of main() in its loop
    entries,       \* ids returned by the current XREADGROUP on crawl:records
    idx,           \* position of the for loop over entries
    ack_r,         \* ids collected for XACK in the current iteration
    expected,      \* (batch_id, source) -> row_count
    done,          \* (batch_id, source) -> loaded_count
    exitReason,    \* which break / exception left the loop
    now,           \* time.time(), in seconds since the start of main()
    start_ts,      \* time.time() at line 193
    last_activity, \* time.time() at the last activity (lines 192, 225, 309)
    lastReadAt,    \* history: time of the last XREADGROUP that returned entries
    lastEventAt,   \* history: time of the last sentinel or entry taken in
    outcome,       \* history: id -> how the try block of that entry ended
    committedIds,  \* history: ids whose iteration reached a successful commit
    self,          \* the loader instance whose main() the variables above follow
    peer,          \* main() of the other instance, when two run: its local state
    trail,         \* history: <<id, instance, "read" | "handled" | "acked">>
    retries,       \* run_one: the retries argument
    attempt,       \* run_one: attempts started so far
    last_rc,       \* run_one: the code of the last attempt, or None
    runPc,         \* run_one: position in its while loop
    result,        \* run_one: the dict returned (rc, attempts)
    codes          \* history: how each attempt of run_one ended

vars == <<recStream, recLastId, recPending, compStream, compLastId, compPending,
          dlq, recDeleted, compDeleted, uniqueNews, REQUIRED_SOURCES, COMPANY_MAP,
          DELETE_RECORDS, DELETE_SENTINELS, TRIM_ON_EXIT, dbCompany, dbNews,
          txCompany, txNews, pc, entries, idx, ack_r, expected, done,
          exitReason, now, start_ts, last_activity, lastReadAt, lastEventAt,
          outcome, committedIds, self, peer, trail,
          retries, attempt, last_rc, runPc, result, codes>>

redisVars == <<recStream, recLastId, recPending, compStream, compLastId,
               compPending, dlq>>
storeVars == <<dbCompany, dbNews, txCompany, txNews>>
cfgVars   == <<uniqueNews, REQUIRED_SOURCES, COMPANY_MAP,
               DELETE_RECORDS, DELETE_SENTINELS, TRIM_ON_EXIT>>
delVars   == <<recDeleted, compDeleted>>
clockVars == <<now, start_ts, last_activity, lastReadAt, lastEventAt>>
histVars  == <<outcome, committedIds>>
instVars  == <<self, peer, trail>>
runVars   == <<retries, attempt, last_rc, runPc, result, codes>>

----------------------------------------------------------------------------
(* Bounds of the model *)

MaxRecordEntries == 2     \* entries producers append to crawl:records
MaxSentinels     == 1     \* entries producers append to crawl:completed
MaxTime          == 3     \* seconds the clock is followed for
MaxAnnounced     == 2     \* sentinels sent where producers announce repeatedly
MaxBacklog       == 3     \* record entries waiting when the loader starts
MaxRetries       == 2     \* the largest --retries run_one is called with

(* Configuration of the loader.  BATCH is read from the environment          *)
(* (default 200); the loader is run here with BATCH = 2.                    *)

BATCH      == 2           \* count= of the XREADGROUP on crawl:records
COMP_COUNT == 100         \* count= of the XREADGROUP on crawl:completed
DATE_LEN   == 10          \* parse_date_yyyy_mm_dd keeps s[:10]
QUIET_S    == 1           \* QUIET_SECONDS (default 120); run here with 1
MAX_RUN_S  == 3           \* MAX_RUN_SECONDS (default 1800); run here with 3
KEEP_LAST_RECORDS   == 0  \* maxlen of the exit-time XTRIM of crawl:records
KEEP_LAST_COMPLETED == 0  \* maxlen of the exit-time XTRIM of crawl:completed

STREAM_RECORDS == "crawl:records"

----------------------------------------------------------------------------
(* Small helpers *)

Min(a, b) == IF a <= b THEN a ELSE b

Range(s) == {s[i] : i \in DOMAIN s}

(* dict.get(k, 0) on a table whose keys are a subset of its possible keys *)
Get0(tbl, k) == IF k \in DOMAIN tbl THEN tbl[k] ELSE 0

(* tbl[k] = v of a Python dict *)
Put(tbl, k, v) == [x \in DOMAIN tbl \cup {k} |-> IF x = k THEN v ELSE tbl[x]]

----------------------------------------------------------------------------
(* Wire values.  Stream fields are strings (decode_responses=True); a       *)
(* published_at string is a sequence of characters.                         *)

TS_A     == <<"2","0","2","5","-","0","1","-","0","2","T","0","3">>
TS_A_PM  == <<"2","0","2","5","-","0","1","-","0","2","T","2","1">>
DAY_B    == <<"2","0","2","5","-","0","1","-","0","3">>
NO_DATE  == <<>>

(* One element of a decoded records array.  dict = FALSE stands for a JSON  *)
(* value that is not an object (a number), on which rec.get raises.         *)
Rec(url, title, pub, thumb, source) ==
    [dict |-> TRUE, url |-> url, title |-> title, published_at |-> pub,
     thumbnail_url |-> thumb, source |-> source]

NotADict == [dict |-> FALSE, url |-> "", title |-> "", published_at |-> NO_DATE,
             thumbnail_url |-> "", source |-> ""]

RecA1    == Rec("https://x/1", "T1", TS_A,    "https://img/1", "")
RecA1pm  == Rec("https://x/1", "T1", TS_A_PM, "https://img/1", "")
RecA2    == Rec("https://x/1", "T2", DAY_B,   "https://img/2", "")
RecB     == Rec("https://x/2", "T2", DAY_B,   "",              "")
RecNoUrl == Rec("",            "T3", NO_DATE, "",              "")
RecSrc   == Rec("https://x/2", "T2", DAY_B,   "",              " Toss ")

(* The `records` field as it travels: absent, a JSON array, a JSON object   *)
(* ('{"a":1}'), or a string that is not JSON.                               *)
NoField      == [kind |-> "absent",  items |-> <<>>]
JArray(xs)   == [kind |-> "array",   items |-> xs]
JObject      == [kind |-> "object",  items |-> <<>>]
NotJson      == [kind |-> "garbage", items |-> <<>>]

(* A crawl:records entry: the fields publish_records sends, and the inline  *)
(* single-record fields of older producers (inline = <<>> when none of      *)
(* url/title/published_at/thumbnail_url is a field of the entry).           *)
Entry(bid, src, records, inline) ==
    [batch_id |-> bid, source |-> src, records |-> records, inline |-> inline]

GoodEntry     == Entry("B1", "toss", JArray(<<RecA1, RecB>>), <<>>)
FirstVersion  == Entry("B1", "toss", JArray(<<RecA1>>), <<>>)
SecondVersion == Entry("B1", "toss", JArray(<<RecA2>>), <<>>)
LaterSameDay  == Entry("B1", "toss", JArray(<<RecA1pm>>), <<>>)
UrlLessEntry  == Entry("B1", "toss", JArray(<<RecB, RecNoUrl>>), <<>>)
PartBadEntry  == Entry("B1", "toss", JArray(<<RecB, NotADict>>), <<>>)
EmptyArray    == Entry("B1", "toss", JArray(<<>>), <<>>)
ObjectEntry   == Entry("B1", "toss", JObject, <<>>)
NotJsonEntry  == Entry("B1", "toss", NotJson, <<>>)
NotJsonInline == Entry("B1", "acme", NotJson, <<RecB>>)
AbsentEntry   == Entry("B1", "toss", NoField, <<>>)
OnlyB         == Entry("B1", "toss", JArray(<<RecB>>), <<>>)
KakaoEntry    == Entry("B1", "kakao", JArray(<<RecB>>), <<>>)
NoKeyEntry    == Entry("",   "",     JArray(<<RecSrc>>), <<>>)

(* The entries producers send in the poison, progress and replay scenarios. *)
PoisonShapes   == {GoodEntry, PartBadEntry, NotJsonEntry}
ProgressShapes == {UrlLessEntry, NoKeyEntry, PartBadEntry}
ReplayShapes   == {FirstVersion, SecondVersion, LaterSameDay}

(* The entries of the completion scenario (every record carries a url, or  *)
(* the entry has no records) and of the required-sources scenario.          *)
FinishShapes   == {FirstVersion, OnlyB, EmptyArray}
RequiredShapes == {OnlyB, KakaoEntry}

(* The entries and the sentinel of the shutdown scenario *)
ClockShapes    == {FirstVersion, EmptyArray}
ForcedShapes   == {FirstVersion}
IdleShapes     == {EmptyArray}

(* The entries of the empty-entry scenario: an empty records array, no     *)
(* records field, and an entry with one record.                             *)
EmptyShapes    == {EmptyArray, AbsentEntry, OnlyB}

(* The entries of the company scenario: a mapped source, a source taken     *)
(* from the first record, a source the mapping does not know.               *)
AcmeEntry      == Entry("B1", "acme", JArray(<<RecB>>), <<>>)
CompanyShapes  == {FirstVersion, NoKeyEntry, AcmeEntry}

(* A crawl:completed entry.  row_count / count are strings: num = TRUE is   *)
(* the decimal string of v, num = FALSE a string int() rejects, and         *)
(* present = FALSE a missing field.                                         *)
Num(v)    == [present |-> TRUE,  num |-> TRUE,  v |-> v]
NotNum    == [present |-> TRUE,  num |-> FALSE, v |-> 0]
NoCount   == [present |-> FALSE, num |-> FALSE, v |-> 0]

Sentinel(bid, src, row_count, count) ==
    [batch_id |-> bid, source |-> src, row_count |-> row_count, count |-> count]

SentinelShapes ==
    { Sentinel("B1", "toss", Num(2), NoCount) }

ClockSentinels ==
    { Sentinel("B1", "toss", Num(1), NoCount) }

(* The sentinels of the malformed-sentinel scenario: one without batch_id,  *)
(* one whose source is blank, one whose row_count is not a number.          *)
NoBatchSentinel  == Sentinel("",   "toss", Num(2), NoCount)
BlankSrcSentinel == Sentinel("B1", " ",    Num(2), NoCount)
BadCountSentinel == Sentinel("B1", "toss", NotNum, NoCount)

MalformedSentinels ==
    { NoBatchSentinel, BlankSrcSentinel, BadCountSentinel }

(* The sentinels of the re-announcement scenario: one key announced with    *)
(* two counts, and a second key.                                            *)
RepeatedSentinels ==
    { Sentinel("B1", "toss", Num(2), NoCount),
      Sentinel("B1", "toss", Num(1), NoCount),
      Sentinel("B1", " Kakao ", NoCount, Num(1)) }

(* The sentinels of the required-sources scenario: two sources of one      *)
(* batch, the second with the older field name and an unnormalised source.  *)
RequiredSentinels ==
    { Sentinel("B1", "toss", Num(1), NoCount),
      Sentinel("B1", " Kakao ", NoCount, Num(1)) }

(* The values of REQUIRED_SOURCES the required-sources scenario is run with *)
RequiredChoices == { {}, {"toss"}, {"toss", "kakao"} }

----------------------------------------------------------------------------
(* UTIL *)

(* str.strip().lower() on the source strings of the model *)
StripLower(s) ==
    CASE s = " Toss " -> "toss"
      [] s = "Toss"   -> "toss"
      [] s = " Kakao " -> "kakao"
      [] s = " "      -> ""
      [] OTHER        -> s

(* str.strip() *)
Strip(s) ==
    CASE s = " Toss " -> "Toss"
      [] s = " Kakao " -> "Kakao"
      [] s = " "      -> ""
      [] OTHER        -> s

parse_date_yyyy_mm_dd(s) ==
    IF s = NO_DATE THEN NO_DATE ELSE SubSeq(s, 1, Min(DATE_LEN, Len(s)))

COMPANY_MAP_KEYS == {"toss", "kakao", "naver"}

(* The mapping the loader uses when COMPANY_MAP_JSON is unset.  "Toss-kr"   *)
(* stands for the Korean name of Toss.                                      *)
DEFAULT_COMPANY_MAP ==
    [key \in COMPANY_MAP_KEYS |->
        CASE key = "toss"  -> <<"Toss",  "Toss-kr">>
          [] key = "kakao" -> <<"Kakao", "Kakao-kr">>
          [] key = "naver" -> <<"Naver", "Naver-kr">>]

(* Python None / JSON null / SQL NULL where a name is expected; no name of  *)
(* the model is this string.                                                *)
NULL == "NULL"

(* Values of COMPANY_MAP_JSON: '{"toss": ["Toss", ""]}',                   *)
(* '{"toss": ["Toss", null]}' and '{"toss": ["Toss"]}'                      *)
MapEmptyKr == [key \in {"toss"} |-> <<"Toss", "">>]
MapNullKr  == [key \in {"toss"} |-> <<"Toss", NULL>>]
MapShort   == [key \in {"toss"} |-> <<"Toss">>]

(* The mappings the company scenario is run with *)
MapChoices == {DEFAULT_COMPANY_MAP, MapEmptyKr, MapNullKr, MapShort}

(* The company table an earlier run with the default mapping has left *)
TossRow == [company_name |-> "Toss", company_name_kr |-> "Toss-kr"]

get_company_names(src_from_record) ==
    LET key  == StripLower(src_from_record)
        pair == IF key \in DOMAIN COMPANY_MAP THEN COMPANY_MAP[key] ELSE <<>>
    IN
    IF pair # <<>> /\ Len(pair) >= 2
    THEN << pair[1], pair[2] >>
    ELSE << Strip(IF src_from_record = "" THEN "unknown" ELSE src_from_record),
            Strip(IF src_from_record = "" THEN "unnamed-kr" ELSE src_from_record) >>

safe_int(x) == IF x.present /\ x.num THEN x.v ELSE 0

(* json.loads(records): ok = FALSE when it raises *)
JsonLoads(w) ==
    CASE w.kind = "array"  -> [ok |-> TRUE,  list |-> TRUE,  items |-> w.items]
      [] w.kind = "object" -> [ok |-> TRUE,  list |-> FALSE, items |-> <<>>]
      [] OTHER             -> [ok |-> FALSE, list |-> FALSE, items |-> <<>>]

(* json.dumps(f) of the dead-letter entry *)
JsonDumps(f) == [kind |-> "object", map |-> f]

----------------------------------------------------------------------------
(* DB: the statements of the loader on the tables the transaction sees.     *)
(* company is a sequence of rows, company_id the position of the row;       *)
(* company_news is a sequence of rows, so that two rows with the same       *)
(* (company_id, url) can be told from one.                                  *)

CompanyIds(company, name) ==
    {i \in DOMAIN company : company[i].company_name = name}

(* COALESCE(a, b): the first argument that is not NULL *)
COALESCE(a, b) == IF a # NULL THEN a ELSE b

(* INSERT INTO company .. ON DUPLICATE KEY UPDATE
   company_name_kr = COALESCE(VALUES(company_name_kr), company_name_kr).
   The bound name_kr is NULL only when the configured mapping holds a JSON
   null; an empty string is not NULL. *)
UPSERT_COMPANY(company, name, name_kr) ==
    IF CompanyIds(company, name) = {}
    THEN Append(company, [company_name |-> name, company_name_kr |-> name_kr])
    ELSE [i \in DOMAIN company |->
            IF company[i].company_name = name
            THEN [company[i] EXCEPT
                    !.company_name_kr = COALESCE(name_kr, company[i].company_name_kr)]
            ELSE company[i]]

(* SELECT id FROM company WHERE company_name=%s; fetchone()[0] *)
SELECT_COMPANY_ID(company, name) ==
    CHOOSE i \in CompanyIds(company, name) : TRUE

NewsRow(company_id, title, url, pub, thumb) ==
    [company_id |-> company_id, title |-> title, url |-> url,
     published_at |-> pub, thumbnail_url |-> thumb]

Matches(row, company_id, url) ==
    row.company_id = company_id /\ row.url = url

Changed(row, title, pub, thumb) ==
    row.title # title \/ row.published_at # pub \/ row.thumbnail_url # thumb

(* cur.rowcount after the UPDATE.  db_connect() passes no client_flag, so   *)
(* the server reports the rows the UPDATE changed, not the rows its WHERE   *)
(* matched: a matched row that already holds the new values counts 0.       *)
UpdateRowcount(news, title, pub, thumb, company_id, url) ==
    Cardinality({i \in DOMAIN news :
                    Matches(news[i], company_id, url)
                    /\ Changed(news[i], title, pub, thumb)})

(* UPDATE_NEWS_BY_URL with the title left out of its SET list *)
UPDATE_NEWS_BY_URL_keep_title(news, title, pub, thumb, company_id, url) ==
    [i \in DOMAIN news |->
        IF Matches(news[i], company_id, url)
        THEN [news[i] EXCEPT !.published_at = pub, !.thumbnail_url = thumb]
        ELSE news[i]]

(* UPDATE company_news SET title,published_at,thumbnail_url WHERE company_id AND url *)
UPDATE_NEWS_BY_URL(news, title, pub, thumb, company_id, url) ==
    [i \in DOMAIN news |->
        IF Matches(news[i], company_id, url)
        THEN [news[i] EXCEPT !.title = title, !.published_at = pub,
                             !.thumbnail_url = thumb]
        ELSE news[i]]

(* INSERT INTO company_news: refused (IntegrityError) when the table has    *)
(* the unique key and a row with the same (company_id, url) exists.         *)
InsertRefused(news, unique, company_id, url) ==
    unique /\ \E i \in DOMAIN news : Matches(news[i], company_id, url)

INSERT_NEWS(news, company_id, title, url, pub, thumb) ==
    Append(news, NewsRow(company_id, title, url, pub, thumb))

----------------------------------------------------------------------------
(* The try block of one crawl:records entry (main, lines 247-309).          *)

(* DecodeRecords without the inner try/except of lines 254-258: the parse  *)
(* error of json.loads reaches the except block of the entry.              *)
DecodeRecords_raise(f) ==
    LET w == f.records
        j == JsonLoads(w) IN
    IF w.kind = "absent" THEN [truthy |-> FALSE, list |-> TRUE, items |-> <<>>, exc |-> ""]
    ELSE IF ~j.ok THEN [truthy |-> FALSE, list |-> TRUE, items |-> <<>>,
                        exc |-> "JSONDecodeError"]
    ELSE IF j.list THEN [truthy |-> j.items # <<>>, list |-> TRUE, items |-> j.items, exc |-> ""]
    ELSE [truthy |-> TRUE, list |-> FALSE, items |-> <<>>, exc |-> ""]

(* lines 252-258: records = f.get("records"); json.loads, [] when it raises *)
DecodeRecords(f) ==
    LET w == f.records
        j == JsonLoads(w) IN
    IF w.kind = "absent" THEN [truthy |-> FALSE, list |-> TRUE, items |-> <<>>, exc |-> ""]
    ELSE IF ~j.ok THEN [truthy |-> FALSE, list |-> TRUE, items |-> <<>>, exc |-> ""]
    ELSE IF j.list THEN [truthy |-> j.items # <<>>, list |-> TRUE, items |-> j.items, exc |-> ""]
    ELSE [truthy |-> TRUE, list |-> FALSE, items |-> <<>>, exc |-> ""]

(* lines 260-271: the inline single-record fallback *)
WithFallback(f, d) ==
    IF d.exc # "" \/ d.truthy THEN d
    ELSE IF f.inline # <<>>
         THEN [truthy |-> TRUE, list |-> TRUE, exc |-> "",
               items |-> << [f.inline[1] EXCEPT !.source = f.source] >>]
         ELSE [truthy |-> FALSE, list |-> TRUE, items |-> <<>>, exc |-> ""]

Records(f) == WithFallback(f, DecodeRecords(f))

(* len(records) *)
NumRecords(d) == IF d.list THEN Len(d.items) ELSE 1

UrlBearing(d) == {i \in DOMAIN d.items : d.items[i].dict /\ d.items[i].url # ""}

(* lines 288-301: the for loop over records.  fault = k > 0: the execute    *)
(* of the k-th url-bearing record raises (the server or the connection      *)
(* fails); a non-dict element raises AttributeError at rec.get.             *)
RECURSIVE WriteNews(_, _, _, _, _, _)
WriteNews(items, i, company_id, news, unique, fault) ==
    IF i > Len(items) THEN [exc |-> "", news |-> news]
    ELSE LET rec == items[i] IN
         IF ~rec.dict THEN [exc |-> "AttributeError", news |-> news]
         ELSE IF rec.url = "" THEN WriteNews(items, i + 1, company_id, news, unique, fault)
         ELSE IF fault = 1 THEN [exc |-> "OperationalError", news |-> news]
         ELSE LET title == rec.title
                  pub   == parse_date_yyyy_mm_dd(rec.published_at)
                  thumb == rec.thumbnail_url
                  next  == IF fault = 0 THEN 0 ELSE fault - 1
              IN IF UpdateRowcount(news, title, pub, thumb, company_id, rec.url) > 0
                 THEN WriteNews(items, i + 1, company_id,
                                UPDATE_NEWS_BY_URL(news, title, pub, thumb, company_id, rec.url),
                                unique, next)
                 ELSE IF InsertRefused(news, unique, company_id, rec.url)
                      THEN [exc |-> "IntegrityError", news |-> news]
                      ELSE WriteNews(items, i + 1, company_id,
                                     INSERT_NEWS(news, company_id, title, rec.url, pub, thumb),
                                     unique, next)

(* line 278 / 303: src_top or records[0].get("source") *)
FirstSource(d) == IF d.list THEN d.items[1].source ELSE ""

(* line 303: the progress key of the entry *)
KeyOf(f, d) ==
    LET src_top == StripLower(f.source) IN
    << f.batch_id, IF src_top # "" THEN src_top ELSE StripLower(FirstSource(d)) >>

(* The faults a run of the try block can meet: 0 none, 1 the company       *)
(* upsert raises, 2 the company select raises, 2+k the write of the k-th    *)
(* url-bearing record raises.                                               *)
FaultPoints(f) ==
    LET d == Records(f) IN
    IF ~d.truthy THEN {0} ELSE 0 .. (2 + Cardinality(UrlBearing(d)))

(* The result of the try block: exc = "" when it ran to the end.            *)
ProcessEntry(f, company, news, unique, fault) ==
    LET d       == Records(f)
        src_top == StripLower(f.source)
        untouched(e) == [exc |-> e, empty |-> FALSE, company |-> company,
                         news |-> news, mark |-> FALSE, n |-> 0]
    IN
    IF d.exc # "" THEN untouched(d.exc)
    ELSE IF ~d.truthy
    THEN [exc |-> "", empty |-> TRUE, company |-> company, news |-> news,
          mark |-> FALSE, n |-> 0]
    ELSE IF src_top = "" /\ ~d.list THEN untouched("KeyError")
    ELSE IF src_top = "" /\ ~d.items[1].dict THEN untouched("AttributeError")
    ELSE IF fault = 1 THEN untouched("OperationalError")
    ELSE
      LET names    == get_company_names(IF src_top # "" THEN src_top ELSE FirstSource(d))
          company2 == UPSERT_COMPANY(company, names[1], names[2])
          failed(e, nws) == [exc |-> e, empty |-> FALSE, company |-> company2,
                             news |-> nws, mark |-> FALSE, n |-> 0]
      IN
      IF fault = 2 THEN failed("OperationalError", news)
      ELSE IF ~d.list THEN failed("AttributeError", news)
      ELSE
        LET company_id == SELECT_COMPANY_ID(company2, names[1])
            w   == WriteNews(d.items, 1, company_id, news, unique,
                             IF fault = 0 THEN 0 ELSE fault - 2)
            key == KeyOf(f, d)
        IN
        IF w.exc # "" THEN failed(w.exc, w.news)
        ELSE [exc |-> "", empty |-> FALSE, company |-> company2, news |-> w.news,
              mark |-> (key[1] # "" /\ key[2] # ""), n |-> NumRecords(d)]

(* mark_done(key, n) *)
mark_done(tbl, key, n) == Put(tbl, key, Get0(tbl, key) + n)

(* DoneAfter counting only the records that carry a url *)
DoneAfter_urls(tbl, f, res) ==
    IF res.exc = "" /\ res.mark
    THEN mark_done(tbl, KeyOf(f, Records(f)), Cardinality(UrlBearing(Records(f))))
    ELSE tbl

(* DoneAfter with mark_done called before the writes of the entry, so that *)
(* an entry whose writes raise is counted too                              *)
DoneAfter_early(tbl, f, res) ==
    LET d == Records(f) IN
    IF d.exc = "" /\ d.truthy /\ d.list
       /\ (StripLower(f.source) # "" \/ d.items[1].dict)
       /\ KeyOf(f, d)[1] # "" /\ KeyOf(f, d)[2] # ""
    THEN mark_done(tbl, KeyOf(f, d), NumRecords(d))
    ELSE tbl

(* DoneAfter counting an entry only when its key has been announced, so    *)
(* that records processed before their sentinel are lost                   *)
DoneAfter_announced(tbl, f, res) ==
    IF res.exc = "" /\ res.mark /\ KeyOf(f, Records(f)) \in DOMAIN expected
    THEN mark_done(tbl, KeyOf(f, Records(f)), res.n)
    ELSE tbl

(* lines 303-305: done after the try block of f ended with result res *)
DoneAfter(tbl, f, res) ==
    IF res.exc = "" /\ res.mark
    THEN mark_done(tbl, KeyOf(f, Records(f)), res.n)
    ELSE tbl

(* all_finished(): lines 201-208.  REQUIRED_SOURCES is the set main() has  *)
(* parsed from the environment (names stripped and lower-cased, empty       *)
(* names dropped); the empty set is falsy.                                  *)
(* all_finished without the required-sources gate of lines 204-207 *)
all_finished_ungated(exp, dn) ==
    IF DOMAIN exp = {} THEN FALSE
    ELSE \A k \in DOMAIN exp : Get0(dn, k) >= exp[k]

(* all_finished with seen_sources taken from the keys of done *)
all_finished_seen_done(exp, dn) ==
    IF DOMAIN exp = {} THEN FALSE
    ELSE IF REQUIRED_SOURCES # {}
            /\ ~(REQUIRED_SOURCES \subseteq {k[2] : k \in DOMAIN dn})
    THEN FALSE
    ELSE \A k \in DOMAIN exp : Get0(dn, k) >= exp[k]

(* key_finished with > in place of >= *)
key_finished_strict(exp, dn, k) == Get0(dn, k) > exp[k]

(* line 208: done.get(k, 0) >= v for one item (k, v) of expected *)
key_finished(exp, dn, k) == Get0(dn, k) >= exp[k]

all_finished(exp, dn) ==
    IF DOMAIN exp = {} THEN FALSE
    ELSE IF REQUIRED_SOURCES # {}
            /\ ~(REQUIRED_SOURCES \subseteq {k[2] : k \in DOMAIN exp})
    THEN FALSE
    ELSE \A k \in DOMAIN exp : key_finished(exp, dn, k)

----------------------------------------------------------------------------
(* The completion sentinels (main, lines 213-234) *)

(* f.get("row_count") or f.get("count") *)
SentinelCount(f) == IF f.row_count.present THEN f.row_count ELSE f.count

(* AbsorbSentinel with the counts of a key added up, as mark_done does *)
AbsorbSentinel_accumulate(exp, f) ==
    IF f.batch_id # "" /\ StripLower(f.source) # ""
    THEN Put(exp, <<f.batch_id, StripLower(f.source)>>,
             Get0(exp, <<f.batch_id, StripLower(f.source)>>)
                + (IF SentinelCount(f).present /\ SentinelCount(f).num
                   THEN SentinelCount(f).v ELSE 0))
    ELSE exp

(* lines 219-225 for one sentinel *)
AbsorbSentinel(exp, f) ==
    LET bid == f.batch_id
        src == StripLower(f.source)
        cnt == safe_int(SentinelCount(f))
    IN IF bid # "" /\ src # "" THEN Put(exp, <<bid, src>>, cnt) ELSE exp

RECURSIVE AbsorbSentinels(_, _, _, _)
AbsorbSentinels(exp, stream, i, last) ==
    IF i > last THEN exp
    ELSE AbsorbSentinels(AbsorbSentinel(exp, stream[i]), stream, i + 1, last)

(* SentinelAcks with line 226 moved under the `if bid and src`: only the    *)
(* sentinels that name a batch and a source are acked                       *)
SentinelAcks_valid_only(stream, i, last) ==
    {j \in i .. last :
        stream[j].batch_id # "" /\ StripLower(stream[j].source) # ""}

(* lines 216-226: ack_c after the for loop over the sentinels               *)
(* stream[i..last].  The fields are strings (decode_responses=True) and     *)
(* safe_int catches what int() raises, so no statement of the try block     *)
(* raises and line 226 is reached for every entry.                          *)
SentinelAcks(stream, i, last) == i .. last

(* SentinelActivity with line 225 left out *)
SentinelActivity_never(la, stream, i, last, t) == la

(* line 225: last_activity after the sentinels stream[i..last] were read at *)
(* time t: set when one of them names a batch and a source                  *)
SentinelActivity(la, stream, i, last, t) ==
    IF \E j \in i .. last :
          stream[j].batch_id # "" /\ StripLower(stream[j].source) # ""
    THEN t ELSE la

(* RecordActivity with line 309 left out *)
RecordActivity_never(la, res, t) == la

(* RecordActivity with line 309 moved in front of the try block: every     *)
(* entry read counts as activity                                           *)
RecordActivity_always(la, res, t) == t

(* line 309: last_activity after the try block of an entry ended with       *)
(* result res at time t                                                     *)
RecordActivity(la, res, t) ==
    IF res.exc = "" /\ ~res.empty THEN t ELSE la

----------------------------------------------------------------------------
(* Initial state: main() up to line 209.  ensure_groups creates both groups *)
(* at 0-0; the tables of the store are the ones the loader fills.  The DDL  *)
(* of company_news is not part of the repository: the loader may run        *)
(* against a table with or without a unique key on (company_id, url).       *)

(* One instance runs: there is no other main() *)
NoPeer == [pc |-> "absent"]

(* last_rc: None (line 38) or an int *)
None  == [none |-> TRUE,  v |-> 0]
Rc(v) == [none |-> FALSE, v |-> v]

(* run_one (run_all.py) has not been called: the runner launches crawlers,  *)
(* the loader is started on its own.                                        *)
RunnerIdle ==
    /\ retries = 0 /\ attempt = 0 /\ last_rc = None
    /\ runPc = "idle"
    /\ result = [rc |-> None, attempts |-> 0]
    /\ codes = <<>>

(* Start-up with the required-sources set req, the mapping cmap and the    *)
(* company table holding the rows company: what every instance does.        *)
InitRun(req, cmap, company) ==
    /\ recStream = <<>> /\ recLastId = 0 /\ recPending = {}
    /\ compStream = <<>> /\ compLastId = 0 /\ compPending = {}
    /\ dlq = <<>>
    /\ recDeleted = {} /\ compDeleted = {}
    /\ uniqueNews \in BOOLEAN
    /\ REQUIRED_SOURCES = req
    /\ COMPANY_MAP = cmap
    /\ dbCompany = company /\ dbNews = <<>>
    /\ txCompany = company /\ txNews = <<>>
    /\ pc = "poll_completed"
    /\ entries = <<>> /\ idx = 1 /\ ack_r = <<>>
    /\ expected = <<>> /\ done = <<>>
    /\ exitReason = "none"
    /\ now = 0 /\ start_ts = 0 /\ last_activity = 0
    /\ lastReadAt = 0 /\ lastEventAt = 0
    /\ outcome = <<>>
    /\ committedIds = {}
    /\ self = 1
    /\ trail = {}

(* The local state of the main() the variables follow, as kept for the      *)
(* instance that is not taking the step                                     *)
Local ==
    [pc |-> pc, entries |-> entries, idx |-> idx, ack_r |-> ack_r,
     expected |-> expected, done |-> done, exitReason |-> exitReason,
     last_activity |-> last_activity, txCompany |-> txCompany, txNews |-> txNews]

(* DELETE_RECORDS, DELETE_SENTINELS and TRIM_ON_EXIT unset *)
NoCleanup ==
    /\ DELETE_RECORDS = FALSE
    /\ DELETE_SENTINELS = FALSE
    /\ TRIM_ON_EXIT = FALSE

(* One instance *)
InitWith(req, cmap, company) ==
    /\ InitRun(req, cmap, company)
    /\ peer = NoPeer
    /\ NoCleanup
    /\ RunnerIdle

(* Two instances started together with the same environment, as two         *)
(* consumers of the same groups                                             *)
InitTwo ==
    /\ InitRun({}, DEFAULT_COMPANY_MAP, <<>>)
    /\ peer = Local
    /\ NoCleanup
    /\ RunnerIdle

(* The values of (DELETE_RECORDS, DELETE_SENTINELS, TRIM_ON_EXIT) the       *)
(* clean-up scenario is run with: delete-after-ack, or trim-on-exit         *)
CleanupChoices == { <<TRUE, TRUE, FALSE>>, <<FALSE, FALSE, TRUE>> }

InitCleanup ==
    /\ InitRun({}, DEFAULT_COMPANY_MAP, <<>>)
    /\ peer = NoPeer
    /\ \E c \in CleanupChoices :
          /\ DELETE_RECORDS = c[1]
          /\ DELETE_SENTINELS = c[2]
          /\ TRIM_ON_EXIT = c[3]
    /\ RunnerIdle

(* REQUIRED_SOURCES and COMPANY_MAP_JSON unset, the tables empty *)
Init == InitWith({}, DEFAULT_COMPANY_MAP, <<>>)

----------------------------------------------------------------------------
(* Producers (util/redis_pub.py) *)

(* publish_records: XADD of one chunk to crawl:records *)
XAddRecord(f) ==
    /\ Len(recStream) < MaxRecordEntries
    /\ recStream' = Append(recStream, f)
    /\ UNCHANGED <<clockVars, recLastId, recPending, compStream, compLastId, compPending,
                   dlq, cfgVars, runVars, delVars, instVars, storeVars, pc, entries, idx, ack_r,
                   expected, done, exitReason, histVars>>

(* publish_event: XADD of a completion event to crawl:completed *)
XAddSentinel(f) ==
    /\ Len(compStream) < MaxSentinels
    /\ compStream' = Append(compStream, f)
    /\ UNCHANGED <<clockVars, recStream, recLastId, recPending, compLastId, compPending,
                   dlq, cfgVars, runVars, delVars, instVars, storeVars, pc, entries, idx, ack_r,
                   expected, done, exitReason, histVars>>

(* publish_event where a producer announces more than once: a crawler that  *)
(* is run again (run_all.py retries it) sends its completion event again.   *)
XAddSentinelAgain(f) ==
    /\ Len(compStream) < MaxAnnounced
    /\ compStream' = Append(compStream, f)
    /\ UNCHANGED <<clockVars, recStream, recLastId, recPending, compLastId, compPending,
                   dlq, cfgVars, runVars, delVars, instVars, storeVars, pc, entries, idx, ack_r,
                   expected, done, exitReason, histVars>>

----------------------------------------------------------------------------
(* The loop of main() *)

(* lines 213-234: XREADGROUP on crawl:completed, the sentinels absorbed,    *)
(* every id read acked, and deleted when DELETE_SENTINELS is set.           *)
PollCompleted ==
    /\ pc = "poll_completed"
    /\ LET last == Min(compLastId + COMP_COUNT, Len(compStream)) IN
        /\ expected' = AbsorbSentinels(expected, compStream, compLastId + 1, last)
        /\ compLastId' = last
        /\ compPending' = (compPending \cup (compLastId + 1 .. last))
                              \ SentinelAcks(compStream, compLastId + 1, last)
        /\ last_activity' = SentinelActivity(last_activity, compStream,
                                              compLastId + 1, last, now)
        /\ lastEventAt' =
              IF \E j \in compLastId + 1 .. last :
                    AbsorbSentinel(<<>>, compStream[j]) # <<>>
              THEN now ELSE lastEventAt
        /\ lastReadAt' = IF last > compLastId THEN now ELSE lastReadAt
        /\ compDeleted' =
              IF DELETE_SENTINELS
              THEN compDeleted \cup SentinelAcks(compStream, compLastId + 1, last)
              ELSE compDeleted
    /\ pc' = "poll_records"
    /\ UNCHANGED <<recStream, recLastId, recPending, compStream, dlq,
                   recDeleted, cfgVars, runVars, instVars, storeVars, entries, idx, ack_r, done,
                   exitReason, now, start_ts, histVars>>

(* NewEntries with the last-delivered id itself read again *)
NewEntries_inclusive(lastDelivered, stream, count) ==
    LET from == IF lastDelivered = 0 THEN 1 ELSE lastDelivered
        last == Min(from + count - 1, Len(stream))
    IN [i \in 1 .. (last - from + 1) |-> from + i - 1]

(* NewEntries with the group set back to 0-0 before the read, as            *)
(* reset_groups_to_zero does once at start-up                               *)
NewEntries_from_zero(lastDelivered, stream, count) ==
    [i \in 1 .. Min(count, Len(stream)) |-> i]

(* XREADGROUP GROUP g c COUNT count STREAMS stream ">": the entries after    *)
(* the group's last-delivered id, whichever consumer of the group asks, at   *)
(* most count of them                                                       *)
NewEntries(lastDelivered, stream, count) ==
    LET last == Min(lastDelivered + count, Len(stream))
    IN [i \in 1 .. (last - lastDelivered) |-> lastDelivered + i]

(* line 237-243: XREADGROUP on crawl:records with count=BATCH; the ids read *)
(* enter the group's pending list.                                          *)
PollRecords ==
    /\ pc = "poll_records"
    /\ LET ids  == NewEntries(recLastId, recStream, BATCH)
           last == IF ids = <<>> THEN recLastId ELSE ids[Len(ids)]
       IN /\ entries' = ids
          /\ recLastId' = last
          /\ recPending' = recPending \cup Range(ids)
          /\ pc' = IF ids = <<>> THEN "exit_check" ELSE "for_entries"
          /\ lastReadAt' = IF ids = <<>> THEN lastReadAt ELSE now
          /\ trail' = trail \cup {<<id, self, "read">> : id \in Range(ids)}
    /\ idx' = 1
    /\ ack_r' = <<>>
    /\ UNCHANGED <<recStream, compStream, compLastId, compPending, dlq,
                   cfgVars, runVars, delVars, self, peer, storeVars, expected, done, exitReason, now,
                   start_ts, last_activity, lastEventAt, histVars>>

(* The other instance has its own connection (db_connect, autocommit off).  *)
(* Its transaction is open while the rows it sees differ from the committed *)
(* ones.  The first statement of the try block of an entry with records is  *)
(* the upsert of its company row, which waits for the row lock as long as   *)
(* the open transaction of another connection has upserted the same row;    *)
(* where two instances run, all entries come from one source.               *)
PeerTxOpen ==
    /\ peer # NoPeer
    /\ (peer.txCompany # dbCompany \/ peer.txNews # dbNews)

(* What the connection of the other instance sees after a commit of this    *)
(* one: it has no open transaction (it would have held the row lock), so    *)
(* its next statement reads the committed rows.                             *)
PeerSees(p, company, news) ==
    IF p = NoPeer THEN p
    ELSE [p EXCEPT !.txCompany = company, !.txNews = news]

(* The dead-letter entry of lines 313-316 *)
DeadLetter(mid, reason, f) ==
    [stream |-> STREAM_RECORDS, msg_id |-> mid, reason |-> reason,
     fields |-> JsonDumps(f)]

(* AckAfter with line 274 left out: an entry without records is skipped    *)
(* and not acked                                                            *)
AckAfter_skip_unacked(acks, mid, res) ==
    IF res.exc = "" /\ ~res.empty THEN Append(acks, mid) ELSE acks

(* ack_r after the try/except of entry mid ended with result res:           *)
(* line 274 (no records) and line 307 (end of the try block) append mid,    *)
(* the except block of lines 311-316 does not.                              *)
AckAfter(acks, mid, res) ==
    IF res.exc = "" THEN Append(acks, mid) ELSE acks

(* ProcessOne without the try/except of lines 247 and 311-316: an          *)
(* exception of the entry leaves the for loop and the while loop.           *)
ProcessOne_abort ==
    /\ pc = "for_entries"
    /\ idx <= Len(entries)
    /\ LET mid == entries[idx]
           f   == recStream[mid]
       IN \E fault \in FaultPoints(f) :
          LET res == ProcessEntry(f, txCompany, txNews, uniqueNews, fault) IN
            /\ Records(f).truthy => ~PeerTxOpen
            /\ trail' = trail \cup {<<mid, self, "handled">>}
            /\ txCompany' = res.company
            /\ txNews' = res.news
            /\ done' = DoneAfter(done, f, res)
            /\ ack_r' = AckAfter(ack_r, mid, res)
            /\ last_activity' = RecordActivity(last_activity, res, now)
            /\ lastEventAt' = IF res.exc = "" /\ res.n > 0
                               THEN now ELSE lastEventAt
            /\ outcome' = Put(outcome, mid,
                 [res    |-> IF res.exc # "" THEN "dlq"
                             ELSE IF res.empty THEN "empty" ELSE "ok",
                  dirty  |-> (res.company # txCompany \/ res.news # txNews),
                  replay |-> (\E i \in committedIds :
                                /\ recStream[i] = f
                                /\ outcome[i].res = "ok"),
                  poll   |-> entries])
            /\ pc' = IF res.exc # "" THEN "stopped" ELSE pc
            /\ exitReason' = IF res.exc # "" THEN "exception" ELSE exitReason
            /\ idx' = IF res.exc # "" THEN idx ELSE idx + 1
    /\ UNCHANGED <<recStream, recLastId, recPending, compStream, compLastId,
                   compPending, dlq, cfgVars, runVars, delVars, self, peer, dbCompany, dbNews, entries,
                   expected, now, start_ts, lastReadAt, committedIds>>

(* lines 246-316: one pass of the for loop, try block and except block *)
ProcessOne ==
    /\ pc = "for_entries"
    /\ idx <= Len(entries)
    /\ LET mid == entries[idx]
           f   == recStream[mid]
       IN \E fault \in FaultPoints(f) :
          LET res == ProcessEntry(f, txCompany, txNews, uniqueNews, fault) IN
            /\ Records(f).truthy => ~PeerTxOpen
            /\ trail' = trail \cup {<<mid, self, "handled">>}
            /\ txCompany' = res.company
            /\ txNews' = res.news
            /\ done' = DoneAfter(done, f, res)
            /\ ack_r' = AckAfter(ack_r, mid, res)
            /\ dlq' = IF res.exc # "" THEN Append(dlq, DeadLetter(mid, res.exc, f))
                      ELSE dlq
            /\ last_activity' = RecordActivity(last_activity, res, now)
            /\ lastEventAt' = IF res.exc = "" /\ res.n > 0
                               THEN now ELSE lastEventAt
            /\ outcome' = Put(outcome, mid,
                 [res    |-> IF res.exc # "" THEN "dlq"
                             ELSE IF res.empty THEN "empty" ELSE "ok",
                  dirty  |-> (res.company # txCompany \/ res.news # txNews),
                  replay |-> (\E i \in committedIds :
                                /\ recStream[i] = f
                                /\ outcome[i].res = "ok"),
                  poll   |-> entries])
    /\ idx' = idx + 1
    /\ UNCHANGED <<recStream, recLastId, recPending, compStream, compLastId,
                   compPending, cfgVars, runVars, delVars, self, peer, dbCompany, dbNews, pc, entries,
                   expected, exitReason, now, start_ts, lastReadAt,
                   committedIds>>

(* line 318: db.commit() succeeds *)
Commit ==
    /\ pc = "for_entries"
    /\ idx > Len(entries)
    /\ dbCompany' = txCompany
    /\ dbNews' = txNews
    /\ committedIds' = committedIds \cup Range(entries)
    /\ peer' = PeerSees(peer, txCompany, txNews)
    /\ pc' = "xack"
    /\ UNCHANGED <<clockVars, redisVars, cfgVars, runVars, delVars, self, trail, txCompany, txNews, entries, idx,
                   ack_r, expected, done, exitReason, outcome>>

(* CommitFails with the exception of db.commit() caught and only logged:   *)
(* the iteration goes on to its XACK.                                      *)
CommitFails_swallowed ==
    /\ pc = "for_entries"
    /\ idx > Len(entries)
    /\ pc' = "xack"
    /\ UNCHANGED <<clockVars, redisVars, cfgVars, runVars, delVars, instVars, storeVars, entries, idx, ack_r,
                   expected, done, exitReason, histVars>>

(* line 318: db.commit() raises.  The exception leaves the while loop; the  *)
(* finally block closes the connection, which drops the open transaction.   *)
CommitFails ==
    /\ pc = "for_entries"
    /\ idx > Len(entries)
    /\ txCompany' = dbCompany
    /\ txNews' = dbNews
    /\ pc' = "stopped"
    /\ exitReason' = "exception"
    /\ UNCHANGED <<clockVars, redisVars, cfgVars, runVars, delVars, instVars, dbCompany, dbNews, entries, idx,
                   ack_r, expected, done, histVars>>

(* lines 320-325: XACK of the ids collected in ack_r, and their XDEL when   *)
(* DELETE_RECORDS is set                                                    *)
AckRecords ==
    /\ pc = "xack"
    /\ recPending' = recPending \ Range(ack_r)
    /\ trail' = trail \cup {<<id, self, "acked">> : id \in Range(ack_r)}
    /\ recDeleted' = IF DELETE_RECORDS THEN recDeleted \cup Range(ack_r)
                      ELSE recDeleted
    /\ pc' = "exit_check"
    /\ UNCHANGED <<clockVars, recStream, recLastId, compStream, compLastId, compPending,
                   dlq, compDeleted, cfgVars, runVars, self, peer, storeVars, entries, idx, ack_r, expected,
                   done, exitReason, histVars>>


(* ExitDecision with the safety cap of lines 366-369 applied only once      *)
(* every announced batch is finished                                        *)
ExitDecision_cap_when_finished(quiet1, quiet2, maxrun, fail1, fail2) ==
    LET pend0 == recPending = {} /\ compPending = {} IN
    IF all_finished(expected, done) /\ quiet1 /\ fail1 THEN "pending_check_failed"
    ELSE IF all_finished(expected, done) /\ quiet1 /\ pend0 THEN "drained"
    ELSE IF quiet2 /\ fail2 THEN "pending_check_failed"
    ELSE IF quiet2 /\ pend0 /\ DOMAIN expected = {} THEN "quiet"
    ELSE IF maxrun /\ all_finished(expected, done) THEN "max_run"
    ELSE "none"

(* lines 334-369.  The clock is not part of this model: what the two       *)
(* reads of time.time() - last_activity and the read of time.time() -       *)
(* start_ts give is the choice of the environment.  quiet1, quiet2:         *)
(* QUIET_S seconds have passed since last_activity at line 335 resp. line   *)
(* 352 (time only advances, so quiet1 implies quiet2); maxrun: MAX_RUN_S    *)
(* seconds have passed since start_ts; fail1, fail2: the xinfo_groups       *)
(* query of the first resp. second check raises.                            *)
ExitDecision(quiet1, quiet2, maxrun, fail1, fail2) ==
    LET pend0 == recPending = {} /\ compPending = {} IN
    IF all_finished(expected, done) /\ quiet1 /\ fail1 THEN "pending_check_failed"
    ELSE IF all_finished(expected, done) /\ quiet1 /\ pend0 THEN "drained"
    ELSE IF quiet2 /\ fail2 THEN "pending_check_failed"
    ELSE IF quiet2 /\ pend0 /\ DOMAIN expected = {} THEN "quiet"
    ELSE IF maxrun THEN "max_run"
    ELSE "none"

ExitCheck ==
    /\ pc = "exit_check"
    /\ \E quiet1 \in BOOLEAN, quiet2 \in BOOLEAN, maxrun \in BOOLEAN,
          fail1 \in BOOLEAN, fail2 \in BOOLEAN :
         /\ quiet1 => quiet2
         /\ LET why == ExitDecision(quiet1, quiet2, maxrun, fail1, fail2) IN
              /\ exitReason' = why
              /\ pc' = IF why = "none" THEN "poll_completed" ELSE "stopped"
    /\ UNCHANGED <<clockVars, redisVars, cfgVars, runVars, delVars, instVars, storeVars, entries, idx, ack_r,
                   expected, done, histVars>>

(* Which of the three reads of the clock decides the evaluation: 1 when    *)
(* line 344 or 347 breaks, 2 when line 361 or 364 breaks, 3 otherwise.      *)
ExitRead(quiet1, quiet2, fail1, fail2) ==
    LET pend0 == recPending = {} /\ compPending = {} IN
    IF all_finished(expected, done) /\ quiet1 /\ (fail1 \/ pend0) THEN 1
    ELSE IF quiet2 /\ (fail2 \/ (pend0 /\ DOMAIN expected = {})) THEN 2
    ELSE 3

(* lines 334-369 with the clock: time.time() is read at line 335, at line   *)
(* 352 and at line 367, d1 and d2 seconds apart.                            *)
ExitCheckClock ==
    /\ pc = "exit_check"
    /\ \E d1 \in 0 .. 1, d2 \in 0 .. 1, fail1 \in BOOLEAN, fail2 \in BOOLEAN :
         /\ now + d1 + d2 <= MaxTime
         /\ LET t1 == now
                t2 == now + d1
                t3 == now + d1 + d2
                quiet1 == (t1 - last_activity) >= QUIET_S
                quiet2 == (t2 - last_activity) >= QUIET_S
                maxrun == (t3 - start_ts) >= MAX_RUN_S
                why  == ExitDecision(quiet1, quiet2, maxrun, fail1, fail2)
                read == ExitRead(quiet1, quiet2, fail1, fail2)
            IN /\ exitReason' = why
               /\ pc' = IF why = "none" THEN "poll_completed" ELSE "stopped"
               /\ now' = IF read = 1 THEN t1 ELSE IF read = 2 THEN t2 ELSE t3
    /\ UNCHANGED <<redisVars, cfgVars, runVars, delVars, instVars, storeVars, entries, idx, ack_r,
                   expected, done, start_ts, last_activity, lastReadAt,
                   lastEventAt, histVars>>

(* The clock advances by a second while the loader runs *)
Tick ==
    /\ pc # "stopped"
    /\ now < MaxTime
    /\ now' = now + 1
    /\ UNCHANGED <<redisVars, cfgVars, runVars, delVars, instVars, storeVars, pc, entries, idx, ack_r,
                   expected, done, exitReason, start_ts, last_activity,
                   lastReadAt, lastEventAt, histVars>>

(* Two instances: the scheduler lets the other main() take the next steps. *)
(* A main() that has left its loop takes no more steps.                     *)
Switch ==
    /\ peer # NoPeer
    /\ peer.pc # "stopped"
    /\ self' = 3 - self
    /\ peer' = Local
    /\ pc' = peer.pc
    /\ entries' = peer.entries
    /\ idx' = peer.idx
    /\ ack_r' = peer.ack_r
    /\ expected' = peer.expected
    /\ done' = peer.done
    /\ exitReason' = peer.exitReason
    /\ last_activity' = peer.last_activity
    /\ txCompany' = peer.txCompany
    /\ txNews' = peer.txNews
    /\ UNCHANGED <<redisVars, cfgVars, runVars, delVars, dbCompany, dbNews, now, start_ts,
                   lastReadAt, lastEventAt, histVars, trail>>

(* XTRIM stream MAXLEN ~ maxlen: the ids left of the stream whose entries   *)
(* are `present`.  Approximate trimming removes whole nodes as long as at   *)
(* least maxlen entries remain; with maxlen = 0 that is every node, so the  *)
(* stream is emptied; otherwise it keeps the newest maxlen entries or some  *)
(* more, of which the newest maxlen are kept here.                          *)
XTrim(present, maxlen) ==
    {id \in present : Cardinality({j \in present : j > id}) < maxlen}

(* lines 371-381: the finally block of main().  It runs however the loop    *)
(* was left (a break or an exception).  trimmed: 2 when both XTRIM calls    *)
(* return, 1 when the second raises, 0 when the first raises (the except    *)
(* of lines 378-379 logs it).                                               *)
Finally ==
    /\ pc = "stopped"
    /\ \E trimmed \in 0 .. 2 :
         /\ ~TRIM_ON_EXIT => trimmed = 0
         /\ recDeleted' =
               IF TRIM_ON_EXIT /\ trimmed >= 1
               THEN DOMAIN recStream
                      \ XTrim(DOMAIN recStream \ recDeleted, KEEP_LAST_RECORDS)
               ELSE recDeleted
         /\ compDeleted' =
               IF TRIM_ON_EXIT /\ trimmed = 2
               THEN DOMAIN compStream
                      \ XTrim(DOMAIN compStream \ compDeleted, KEEP_LAST_COMPLETED)
               ELSE compDeleted
    /\ txCompany' = dbCompany
    /\ txNews' = dbNews
    /\ pc' = "exited"
    /\ UNCHANGED <<clockVars, recStream, recLastId, recPending, compStream,
                   compLastId, compPending, dlq, cfgVars, runVars, instVars, dbCompany,
                   dbNews, entries, idx, ack_r, expected, done, exitReason,
                   histVars>>

(* One step of the loader *)
LoaderStep ==
    \/ PollCompleted
    \/ PollRecords
    \/ ProcessOne
    \/ Commit
    \/ CommitFails
    \/ AckRecords
    \/ ExitCheck

(* Poison scenario: well-formed and malformed entries mixed *)
Next ==
    \/ \E f \in PoisonShapes : XAddRecord(f)
    \/ \E f \in SentinelShapes : XAddSentinel(f)
    \/ LoaderStep

Spec == Init /\ [][Next]_vars

(* Progress scenario: entries with url-less records and without a key *)
NextProgress ==
    \/ \E f \in ProgressShapes : XAddRecord(f)
    \/ \E f \in SentinelShapes : XAddSentinel(f)
    \/ LoaderStep

SpecProgress == Init /\ [][NextProgress]_vars

(* Replay scenario: the same url delivered again, unchanged or changed *)
NextReplay ==
    \/ \E f \in ReplayShapes : XAddRecord(f)
    \/ \E f \in SentinelShapes : XAddSentinel(f)
    \/ LoaderStep

SpecReplay == Init /\ [][NextReplay]_vars

(* Completion scenario: one source announces two records, which arrive in  *)
(* one-record entries.                                                      *)
NextFinish ==
    \/ \E f \in FinishShapes : XAddRecord(f)
    \/ \E f \in SentinelShapes : XAddSentinel(f)
    \/ LoaderStep

SpecFinish == Init /\ [][NextFinish]_vars

(* One step of the loader with the clock followed *)
LoaderStepClock ==
    \/ PollCompleted
    \/ PollRecords
    \/ ProcessOne
    \/ Commit
    \/ CommitFails
    \/ AckRecords
    \/ ExitCheckClock

(* Shutdown scenario: the clock runs, one source announces one record *)
NextClock ==
    \/ \E f \in ClockShapes : XAddRecord(f)
    \/ \E f \in ClockSentinels : XAddSentinel(f)
    \/ LoaderStepClock
    \/ Tick

SpecClock == Init /\ [][NextClock]_vars

(* Forced-exit scenario: the shutdown scenario with one kind of entry *)
NextForced ==
    \/ \E f \in ForcedShapes : XAddRecord(f)
    \/ \E f \in ClockSentinels : XAddSentinel(f)
    \/ LoaderStepClock
    \/ Tick

SpecForced == Init /\ [][NextForced]_vars

(* Company scenario: the loader runs with the default or a configured      *)
(* mapping, against an empty company table or the table of an earlier run.  *)
InitCompany ==
    \E cmap \in MapChoices, company \in {<<>>, <<TossRow>>} :
        InitWith({}, cmap, company)

NextCompany ==
    \/ \E f \in CompanyShapes : XAddRecord(f)
    \/ \E f \in SentinelShapes : XAddSentinel(f)
    \/ LoaderStep

SpecCompany == InitCompany /\ [][NextCompany]_vars

(* Malformed-sentinel scenario: the clock runs, producers send well-formed  *)
(* and malformed completion events.                                         *)
NextMalformed ==
    \/ \E f \in IdleShapes : XAddRecord(f)
    \/ \E f \in MalformedSentinels : XAddSentinelAgain(f)
    \/ LoaderStepClock
    \/ Tick

SpecMalformed == Init /\ [][NextMalformed]_vars

(* Re-announcement scenario: producers announce a key more than once *)
NextRepeated ==
    \/ \E f \in ForcedShapes : XAddRecord(f)
    \/ \E f \in RepeatedSentinels : XAddSentinelAgain(f)
    \/ LoaderStep

SpecRepeated == Init /\ [][NextRepeated]_vars

(* Empty-entry scenario: entries without records among entries with them *)
NextEmpty ==
    \/ \E f \in EmptyShapes : XAddRecord(f)
    \/ \E f \in SentinelShapes : XAddSentinel(f)
    \/ LoaderStep

SpecEmpty == Init /\ [][NextEmpty]_vars

(* Two-instance scenario: two loaders consume the same groups *)
NextTwo ==
    \/ \E f \in ForcedShapes : XAddRecord(f)
    \/ LoaderStep
    \/ Switch

SpecTwo == InitTwo /\ [][NextTwo]_vars

(* The loader is about to poll and has read nothing yet *)
NothingRead ==
    /\ pc = "poll_completed"
    /\ recLastId = 0 /\ compLastId = 0
    /\ now = 0

(* Backlog scenario (the CronJob pattern of lines 21-23): the crawlers have *)
(* published before the loader reads, and are silent afterwards.            *)
BacklogRecord(f) ==
    /\ NothingRead
    /\ Len(recStream) < MaxBacklog
    /\ recStream' = Append(recStream, f)
    /\ UNCHANGED <<clockVars, recLastId, recPending, compStream, compLastId, compPending,
                   dlq, cfgVars, runVars, delVars, instVars, storeVars, pc, entries, idx, ack_r,
                   expected, done, exitReason, histVars>>

BacklogSentinel(f) ==
    /\ NothingRead
    /\ XAddSentinel(f)

NextBacklog ==
    \/ \E f \in ClockShapes : BacklogRecord(f)
    \/ \E f \in ClockSentinels : BacklogSentinel(f)
    \/ LoaderStepClock
    \/ Tick

SpecBacklog == Init /\ [][NextBacklog]_vars

(* publish_records before the loaders read, up to MaxRecordEntries entries *)
EarlyRecord(f) ==
    /\ NothingRead
    /\ XAddRecord(f)

(* Two-instance shutdown scenario: two loaders consume the same groups with *)
(* the clock followed; the batch (one sentinel announcing one record, and   *)
(* its record entries) is published before they read.                       *)
NextTwoClock ==
    \/ \E f \in ForcedShapes : EarlyRecord(f)
    \/ \E f \in ClockSentinels : BacklogSentinel(f)
    \/ LoaderStepClock
    \/ Tick
    \/ Switch

SpecTwoClock == InitTwo /\ [][NextTwoClock]_vars

----------------------------------------------------------------------------
(* The runner (run_all.py): run_one(path, env, timeout, retries)            *)

loaderVars == <<redisVars, delVars, cfgVars, storeVars, pc, entries, idx, ack_r,
                expected, done, exitReason, clockVars, histVars, instVars>>

(* --retries is an int (line 119): any value, negative ones included *)
RetryChoices == -1 .. MaxRetries

(* p.returncode of a crawler that ended by itself (line 58) *)
ExitCodes == {0, 1, 2}

TIMEOUT_RC == 124            \* line 55
EXC_RC     == 1              \* line 63

(* how an attempt ended: the process exited with code, was killed at the    *)
(* timeout, or create_subprocess_exec raised                                *)
Exited(code) == [kind |-> "exit",    code |-> code]
TimedOut     == [kind |-> "timeout", code |-> 0]
Raised       == [kind |-> "raised",  code |-> 0]

(* run_one is called with one of the values of retries *)
InitRunner ==
    /\ InitRun({}, DEFAULT_COMPANY_MAP, <<>>)
    /\ peer = NoPeer
    /\ NoCleanup
    /\ retries \in RetryChoices
    /\ attempt = 0 /\ last_rc = None
    /\ runPc = "while"
    /\ result = [rc |-> None, attempts |-> 0]
    /\ codes = <<>>

(* ShouldAttempt with one attempt more than retries + 1 *)
ShouldAttempt_extra(a, r) == a <= r + 1

(* line 40: while attempt <= retries *)
ShouldAttempt(a, r) == a <= r

(* lines 40-41 and 66: the loop test; attempt += 1, or the return after the *)
(* last attempt                                                             *)
RunOneLoop ==
    /\ runPc = "while"
    /\ IF ShouldAttempt(attempt, retries)
       THEN /\ attempt' = attempt + 1
            /\ runPc' = "launch"
            /\ UNCHANGED result
       ELSE /\ result' = [rc |-> last_rc, attempts |-> attempt]
            /\ runPc' = "returned"
            /\ UNCHANGED attempt
    /\ UNCHANGED <<loaderVars, retries, last_rc, codes>>

(* lines 43-49 and 62-64: create_subprocess_exec returns the process, or    *)
(* raises and the except sets last_rc = 1                                   *)
RunOneLaunch ==
    /\ runPc = "launch"
    /\ \E raised \in BOOLEAN :
          IF raised
          THEN /\ last_rc' = Rc(EXC_RC)
               /\ codes' = Append(codes, Raised)
               /\ runPc' = "sleep"
          ELSE /\ runPc' = "communicate"
               /\ UNCHANGED <<last_rc, codes>>
    /\ UNCHANGED <<loaderVars, retries, attempt, result>>

(* lines 50-61: communicate() within the timeout gives the return code, the *)
(* timeout kills the process and gives 124; code 0 returns at once          *)
RunOneCommunicate ==
    /\ runPc = "communicate"
    /\ \E how \in {Exited(c) : c \in ExitCodes} \cup {TimedOut} :
          LET rc == IF how.kind = "timeout" THEN TIMEOUT_RC ELSE how.code IN
          /\ last_rc' = Rc(rc)
          /\ codes' = Append(codes, how)
          /\ IF rc = 0
             THEN /\ result' = [rc |-> Rc(0), attempts |-> attempt]
                  /\ runPc' = "returned"
             ELSE /\ runPc' = "sleep"
                  /\ UNCHANGED result
    /\ UNCHANGED <<loaderVars, retries, attempt>>

(* line 65: await asyncio.sleep(1 * attempt), after every failed attempt *)
RunOneSleep ==
    /\ runPc = "sleep"
    /\ runPc' = "while"
    /\ UNCHANGED <<loaderVars, retries, attempt, last_rc, result, codes>>

NextRunner ==
    \/ RunOneLoop
    \/ RunOneLaunch
    \/ RunOneCommunicate
    \/ RunOneSleep

SpecRunner == InitRunner /\ [][NextRunner]_vars

(* Clean-up scenario: the loader deletes what it has acked, or trims the    *)
(* streams when it ends.                                                    *)
NextCleanup ==
    \/ \E f \in ForcedShapes : XAddRecord(f)
    \/ \E f \in SentinelShapes : XAddSentinel(f)
    \/ LoaderStep
    \/ Finally

SpecCleanup == InitCleanup /\ [][NextCleanup]_vars

(* The for loop of lines 246-316 moves on to its next entry: under         *)
(* NextForced these are the steps of ProcessOne, and it is enabled exactly  *)
(* when ProcessOne is.                                                      *)
ForAdvance ==
    /\ pc = "for_entries"
    /\ idx <= Len(entries)
    /\ idx' = idx + 1

(* The forced-exit scenario with the progress the scheduling gives: main()  *)
(* is a single thread whose every call returns (the blocking reads time out *)
(* after 1 ms and BLOCK_MS, the Redis socket after 10 s), so each phase of  *)
(* the loop is followed by the next, and the clock keeps advancing.         *)
SpecForcedFair ==
    /\ SpecForced
    /\ WF_vars(Tick)
    /\ WF_vars(PollCompleted)
    /\ WF_vars(PollRecords)
    /\ WF_idx(ForAdvance)
    /\ WF_vars(Commit \/ CommitFails)
    /\ WF_vars(AckRecords)
    /\ WF_vars(ExitCheckClock)

(* Required-sources scenario: two sources announce a batch, and             *)
(* REQUIRED_SOURCES is unset or names both.                                 *)
InitRequired == \E req \in RequiredChoices : InitWith(req, DEFAULT_COMPANY_MAP, <<>>)

NextRequired ==
    \/ \E f \in RequiredShapes : XAddRecord(f)
    \/ \E f \in RequiredSentinels : XAddSentinel(f)
    \/ LoaderStep

SpecRequired == InitRequired /\ [][NextRequired]_vars

----------------------------------------------------------------------------
(* Vocabulary of the properties *)

DlqIds == {dlq[i].msg_id : i \in DOMAIN dlq}

(* ids delivered to the group and no longer in its pending list *)
Acked == (1 .. recLastId) \ recPending

(* the iteration that read id has committed and has passed its XACK *)
IterationOver(id) ==
    id \in committedIds /\ ~(pc = "xack" /\ id \in Range(entries))

EntryKey(id) == KeyOf(recStream[id], Records(recStream[id]))

HasKey(id) ==
    LET f == recStream[id]
        d == Records(f)
    IN /\ d.truthy /\ d.list
       /\ (StripLower(f.source) # "" \/ d.items[1].dict)
       /\ KeyOf(f, d)[1] # "" /\ KeyOf(f, d)[2] # ""

(* entries whose try block ran to its end under key k *)
OkIdsOf(k) ==
    {id \in DOMAIN outcome : outcome[id].res = "ok" /\ HasKey(id) /\ EntryKey(id) = k}

RECURSIVE CountRecords(_, _)
CountRecords(S, urlsOnly) ==
    IF S = {} THEN 0
    ELSE LET id == CHOOSE x \in S : TRUE
             d  == Records(recStream[id])
         IN (IF urlsOnly THEN Cardinality(UrlBearing(d)) ELSE NumRecords(d))
            + CountRecords(S \ {id}, urlsOnly)

ProgressKeys == DOMAIN done \cup {<<"B1", "toss">>, <<"B1", "acme">>}

RowsFor(news, company_id, url) ==
    {i \in DOMAIN news : Matches(news[i], company_id, url)}

CompanyOf(id) ==
    LET f == recStream[id]
        src_top == StripLower(f.source)
    IN get_company_names(IF src_top # "" THEN src_top
                         ELSE FirstSource(Records(f)))[1]

Urls == {"https://x/1", "https://x/2"}

(* the sources that have announced a batch: the second half of the keys of  *)
(* expected                                                                 *)
SeenSources == {k[2] : k \in DOMAIN expected}

EveryKeyDone == \A k \in DOMAIN expected : Get0(done, k) >= expected[k]

RequiredSeen == REQUIRED_SOURCES # {} => REQUIRED_SOURCES \subseteq SeenSources

(* the shutdown evaluation has stopped the loop before MAX_RUN_S seconds    *)
(* of run time                                                              *)
StoppedEarly ==
    /\ pc = "stopped"
    /\ exitReason \in {"drained", "quiet", "pending_check_failed"}
    /\ (now - start_ts) < MAX_RUN_S

(* the sources of the sentinels the loader has read so far that name a      *)
(* batch and a source                                                       *)
ObservedSources ==
    {StripLower(compStream[i].source) :
        i \in {j \in 1 .. compLastId :
                  compStream[j].batch_id # "" /\ StripLower(compStream[j].source) # ""}}

Carries(id, u) ==
    \E k \in UrlBearing(Records(recStream[id])) :
        Records(recStream[id]).items[k].url = u

Version(id, u) ==
    LET d == Records(recStream[id])
    IN d.items[CHOOSE k \in UrlBearing(d) : d.items[k].url = u]

----------------------------------------------------------------------------
(* C1: every entry whose processing raised has a dead-letter entry with its *)
(* raw fields and the reason, and is acked: once the iteration that         *)
(* handled it is over, it is no longer pending in the records group.        *)
C1_DeadLetteredIsAcked ==
    \A id \in DOMAIN outcome :
        outcome[id].res = "dlq" =>
            /\ \E i \in DOMAIN dlq :
                  /\ dlq[i].msg_id = id
                  /\ dlq[i].reason # ""
                  /\ dlq[i].fields = JsonDumps(recStream[id])
            /\ (IterationOver(id) => id \notin recPending)

C3_AckOnlyAfterDurable ==
    /\ \A id \in Acked :
          /\ id \in DOMAIN outcome
          /\ \/ outcome[id].res = "empty"
             \/ outcome[id].res = "ok" /\ id \in committedIds
             \/ id \in DlqIds
    /\ (exitReason = "exception" => Range(entries) \cap Acked = {})

(* an entry with records has been committed and then acked *)
C3_Witness ==
    \E id \in Acked : outcome[id].res = "ok" /\ id \in committedIds

(* C4 as claimed: in no reachable state does done include records whose     *)
(* writes are uncommitted or whose commit failed.                           *)
C4_DoneOnlyCommitted ==
    \A k \in DOMAIN done :
        done[k] <= CountRecords(OkIdsOf(k) \cap committedIds, FALSE)

(* C4 as amended: the count of an entry is added to done inside the try     *)
(* block, before the commit of its iteration, but outside the for loop of   *)
(* an iteration, where the shutdown evaluation reads done, and unless a     *)
(* failed commit has ended the run, done counts records of committed        *)
(* entries only.                                                            *)
C4_DoneReadAfterCommit ==
    (pc # "for_entries" /\ exitReason # "exception") =>
        \A k \in DOMAIN done :
            done[k] <= CountRecords(OkIdsOf(k) \cap committedIds, FALSE)

(* the shutdown evaluation reads a done that counts committed records *)
C4_Witness ==
    /\ pc = "exit_check"
    /\ \E k \in DOMAIN done :
          done[k] > 0 /\ done[k] = CountRecords(OkIdsOf(k) \cap committedIds, FALSE)

(* C5: the writes of one entry are atomic; an entry that fails part-way and *)
(* is dead-lettered leaves no committed row written on its behalf.          *)
C5_EntryWritesAtomic ==
    \A id \in committedIds :
        outcome[id].res = "dlq" => ~outcome[id].dirty

(* C6 as claimed: done[(batch_id, source)] is the number of url-bearing     *)
(* records written under that key; records without a url never increase it. *)
C6_DoneCountsUrlBearing ==
    \A k \in ProgressKeys : Get0(done, k) = CountRecords(OkIdsOf(k), TRUE)

(* C6 as amended: done[(batch_id, source)] is the number of records, with   *)
(* or without a url, of the entries under that key whose try block ran to   *)
(* its end; entries without batch_id or source are not counted.             *)
C6_DoneCountsAllRecords ==
    /\ \A k \in ProgressKeys : Get0(done, k) = CountRecords(OkIdsOf(k), FALSE)
    /\ \A k \in DOMAIN done : k[1] # "" /\ k[2] # ""

(* an entry with a url-less record has been counted with all its records *)
C6_Witness ==
    \E id \in DOMAIN outcome :
        /\ outcome[id].res = "ok" /\ HasKey(id)
        /\ recStream[id] = UrlLessEntry
        /\ done[EntryKey(id)] = CountRecords(OkIdsOf(EntryKey(id)), FALSE)
        /\ done[EntryKey(id)] > CountRecords(OkIdsOf(EntryKey(id)), TRUE)

(* C7: processing an entry that ends dead-lettered leaves done unchanged    *)
(* for every key.                                                           *)
C7_FailedEntryLeavesDone ==
    [][ \A id \in DOMAIN outcome' \ DOMAIN outcome :
            outcome'[id].res = "dlq" => done' = done ]_vars

(* an entry that wrote rows and then raised has been dead-lettered *)
C7_Witness ==
    \E id \in DOMAIN outcome :
        /\ outcome[id].res = "dlq" /\ outcome[id].dirty
        /\ HasKey(id)
        /\ Get0(done, EntryKey(id)) = CountRecords(OkIdsOf(EntryKey(id)), FALSE)

(* C8: replaying an entry identical to a committed one leaves exactly one   *)
(* company_news row per (company_id, url) of the entry.                     *)
C8_ReplayLeavesOneRow ==
    \A id \in committedIds :
        outcome[id].replay =>
            \A u \in Urls :
                Carries(id, u) =>
                    Cardinality(RowsFor(dbNews,
                        SELECT_COMPANY_ID(dbCompany, CompanyOf(id)), u)) = 1

(* C9: the second delivery of an entry identical to a committed one ends on *)
(* the success path: unless the store itself failed, no dead-letter entry   *)
(* is written for it, it is counted and, with its iteration, acked.         *)
C9_ReplayOnSuccessPath ==
    \A id \in DOMAIN outcome :
        outcome[id].replay =>
            \/ \E i \in DOMAIN dlq :
                  dlq[i].msg_id = id /\ dlq[i].reason = "OperationalError"
            \/ /\ id \notin DlqIds
               /\ outcome[id].res = "ok"
               /\ (IterationOver(id) => id \notin recPending)

(* C10: when the same url of the same company is delivered twice and the    *)
(* second delivery differs in title or date, the store holds exactly one    *)
(* row for (company_id, url), with the title, date and thumbnail of the     *)
(* second delivery.                                                         *)
DeliveredTwice(i, j, u) ==
    /\ i < j
    /\ outcome[i].res = "ok" /\ outcome[j].res = "ok"
    /\ Carries(i, u) /\ Carries(j, u)
    /\ CompanyOf(i) = CompanyOf(j)
    /\ \A k \in DOMAIN outcome \ {i, j} : ~Carries(k, u)
    /\ \/ Version(i, u).title # Version(j, u).title
       \/ parse_date_yyyy_mm_dd(Version(i, u).published_at)
            # parse_date_yyyy_mm_dd(Version(j, u).published_at)

C10_SecondVersionWins ==
    \A i \in committedIds, j \in committedIds, u \in Urls :
        DeliveredTwice(i, j, u) =>
            LET cid == SELECT_COMPANY_ID(dbCompany, CompanyOf(j))
                v   == Version(j, u)
            IN /\ Cardinality(RowsFor(dbNews, cid, u)) = 1
               /\ \A r \in RowsFor(dbNews, cid, u) :
                     dbNews[r] = NewsRow(cid, v.title, u,
                                         parse_date_yyyy_mm_dd(v.published_at),
                                         v.thumbnail_url)

(* a committed url has been delivered again with another title and day *)
C10_Witness ==
    \E i \in committedIds, j \in committedIds, u \in Urls :
        /\ DeliveredTwice(i, j, u)
        /\ Version(j, u).published_at = DAY_B
        /\ Version(i, u).published_at = TS_A

(* C11: for a key (B,S) of expected under which every record entry carries *)
(* a url in each of its records, the key is finished exactly when the       *)
(* records processed under (B,S), summed over the entries, number at least  *)
(* the announced count; when it is the only key and no source is required,  *)
(* all_finished() says the same.                                            *)
AllCarryUrl(k) ==
    \A id \in DOMAIN recStream :
        (HasKey(id) /\ EntryKey(id) = k) =>
            LET d == Records(recStream[id])
            IN UrlBearing(d) = DOMAIN d.items

C11_FinishedAtAnnouncedCount ==
    \A k \in DOMAIN expected :
        AllCarryUrl(k) =>
            /\ key_finished(expected, done, k)
                  <=> (CountRecords(OkIdsOf(k), TRUE) >= expected[k])
            /\ (DOMAIN expected = {k} /\ REQUIRED_SOURCES = {}) =>
                  (all_finished(expected, done)
                      <=> (CountRecords(OkIdsOf(k), TRUE) >= expected[k]))

(* two entries of one record each have reached the announced count of two *)
C11_Witness ==
    \E k \in DOMAIN expected :
        /\ expected[k] = 2
        /\ Cardinality(OkIdsOf(k)) = 2
        /\ CountRecords(OkIdsOf(k), TRUE) = 2
        /\ key_finished(expected, done, k)

(* one record processed under a key that announced two: not finished *)
C11_WitnessBelow ==
    \E k \in DOMAIN expected :
        /\ expected[k] = 2
        /\ CountRecords(OkIdsOf(k), TRUE) = 1
        /\ ~key_finished(expected, done, k)

(* C12 as claimed: all_finished() is true if and only if every key of       *)
(* expected has done >= expected and, when required sources are configured, *)
(* each of them is the source of a key of expected; also when expected is   *)
(* empty.                                                                   *)
C12_AllFinishedIff ==
    all_finished(expected, done) <=> (EveryKeyDone /\ RequiredSeen)

(* C12 as amended: all_finished() is true if and only if expected is not    *)
(* empty, every key of expected has done >= expected and, when required     *)
(* sources are configured, each of them is the source of a key of expected; *)
(* with an empty expected it is false.                                      *)
C12_AllFinishedIffNonEmpty ==
    all_finished(expected, done)
        <=> (DOMAIN expected # {} /\ EveryKeyDone /\ RequiredSeen)

(* the shutdown evaluation finds all_finished() true with a required source *)
(* configured and announced                                                 *)
C12_Witness ==
    /\ pc = "exit_check"
    /\ REQUIRED_SOURCES # {}
    /\ all_finished(expected, done)
    /\ \E k \in DOMAIN done : k \notin DOMAIN expected

(* C13: with required sources configured, all_finished() is false as long  *)
(* as some required source has had no sentinel observed, whatever done      *)
(* holds for the keys of expected; and the drained exit is taken only when  *)
(* every required source has announced a batch.                             *)
C13_RequiredGate ==
    /\ (REQUIRED_SOURCES # {} /\ ~(REQUIRED_SOURCES \subseteq ObservedSources))
          => ~all_finished(expected, done)
    /\ exitReason = "drained" => REQUIRED_SOURCES \subseteq ObservedSources

(* one of two required sources has announced and is done, records of the    *)
(* other have been loaded, and the shutdown evaluation finds all_finished() *)
(* false                                                                    *)
C13_Witness ==
    /\ pc = "exit_check"
    /\ REQUIRED_SOURCES = {"toss", "kakao"}
    /\ ObservedSources = {"toss"}
    /\ DOMAIN expected # {} /\ EveryKeyDone
    /\ Get0(done, <<"B1", "kakao">>) > 0
    /\ ~all_finished(expected, done)

(* C14: whenever the shutdown evaluation stops the loop before MAX_RUN has  *)
(* elapsed, no entry of either group is delivered and unacknowledged, also  *)
(* when the query of the pending counts fails.                              *)
C14_StopsWithNothingPending ==
    StoppedEarly => (recPending = {} /\ compPending = {})

(* C15: whenever the shutdown evaluation stops the loop before MAX_RUN has  *)
(* elapsed, all_finished() holds or expected is empty: no early stop while  *)
(* a key of expected has done < expected.                                   *)
C15_StopsOnlyFinishedOrEmpty ==
    StoppedEarly => (all_finished(expected, done) \/ DOMAIN expected = {})

(* C16: whenever the shutdown evaluation stops the loop before MAX_RUN has  *)
(* elapsed, at least QUIET seconds have passed since the last sentinel that *)
(* was decoded and the last non-empty record entry that was processed to    *)
(* its end (since start-up when there was none).                            *)
C16_StopsOnlyAfterQuiet ==
    StoppedEarly => (now - lastEventAt) >= QUIET_S

(* an entry processed after start-up has postponed the stop by a quiet      *)
(* period                                                                   *)
C16_Witness ==
    /\ StoppedEarly
    /\ lastEventAt > start_ts
    /\ now - lastEventAt = QUIET_S
    /\ \E id \in DOMAIN outcome : outcome[id].res = "ok"

(* a shutdown evaluation begins with no sentinel received so far and no     *)
(* entry pending in either group                                            *)
EvaluatesIdle ==
    /\ pc = "exit_check" /\ pc' # "exit_check"
    /\ compLastId = 0 /\ DOMAIN expected = {}
    /\ recPending = {} /\ compPending = {}

(* C17 as claimed: with no sentinel received and nothing pending, the       *)
(* shutdown evaluation made once QUIET seconds have passed since the last   *)
(* read of either stream that returned entries stops the loop.              *)
C17_StopsQuietAfterLastRead ==
    [][ (EvaluatesIdle /\ (now - lastReadAt) >= QUIET_S) => pc' = "stopped" ]_vars

(* C17 as amended: with no sentinel received and nothing pending, the       *)
(* shutdown evaluation made once QUIET seconds have passed since the last   *)
(* activity (the end of the processing of the last non-empty record entry   *)
(* that was processed to its end, or start-up) stops the loop, whatever the *)
(* run time.                                                                *)
C17_StopsQuietAfterLastActivity ==
    [][ (EvaluatesIdle /\ (now - lastEventAt) >= QUIET_S) => pc' = "stopped" ]_vars

(* the loop has stopped on the quiet exit, before MAX_RUN, after loading an *)
(* entry and without any sentinel                                           *)
C17_Witness ==
    /\ pc = "stopped" /\ exitReason = "quiet"
    /\ compLastId = 0
    /\ \E id \in DOMAIN outcome : outcome[id].res = "ok"
    /\ lastEventAt > start_ts
    /\ (now - start_ts) < MAX_RUN_S

(* C18: the shutdown evaluation at which the run time read at line 367 is  *)
(* at least MAX_RUN stops the loop, whatever expected, done, the pending    *)
(* lists and the last activity are; and the loop, as long as it keeps       *)
(* taking steps while the clock advances, always reaches STOPPED.           *)
C18_AlwaysTerminates ==
    /\ [][ (pc = "exit_check" /\ pc' # "exit_check"
              /\ (now' - start_ts) >= MAX_RUN_S) => pc' = "stopped" ]_vars
    /\ <>(pc = "stopped")

(* the forced exit has stopped a loader that was neither finished nor quiet *)
(* nor free of pending entries                                              *)
C18_Witness ==
    /\ pc = "stopped" /\ exitReason = "max_run"
    /\ DOMAIN expected # {} /\ ~all_finished(expected, done)
    /\ recPending # {}
    /\ (now - last_activity) < QUIET_S

(* C19: the company upsert never replaces a non-empty company_name_kr of   *)
(* an existing company by an empty value: whatever the source and the       *)
(* mapping, the stored name_kr is left as it is or set to a non-empty one.  *)
NonEmptyName(x) == x # "" /\ x # NULL

C19_NameKrNeverEmptied ==
    [][ \A i \in DOMAIN txCompany \cap DOMAIN txCompany' :
            NonEmptyName(txCompany[i].company_name_kr) =>
                \/ txCompany'[i].company_name_kr = txCompany[i].company_name_kr
                \/ NonEmptyName(txCompany'[i].company_name_kr) ]_vars

(* C20: an entry whose processing raised does not stop the loop: the loop  *)
(* is never left in the middle of a poll, the other entries of the poll are *)
(* processed, those that ran to their end are committed and acked with the  *)
(* iteration, and the loop goes on to its shutdown evaluation and the next  *)
(* poll.                                                                    *)
C20_FailureIsIsolated ==
    /\ pc = "stopped" => idx > Len(entries)
    /\ \A i \in DOMAIN outcome :
          (outcome[i].res = "dlq" /\ IterationOver(i)) =>
              /\ \A j \in Range(outcome[i].poll) \ {i} :
                    /\ j \in DOMAIN outcome
                    /\ outcome[j].res \in {"ok", "empty"} =>
                          (j \in committedIds /\ j \notin recPending)
              /\ (pc = "stopped" => exitReason # "exception"
                                      \/ i \notin Range(entries))

(* an entry was dead-lettered, the entry read with it was loaded, committed *)
(* and acked, and the loop has gone on to its next iteration                *)
C20_Witness ==
    \E i \in DOMAIN outcome, j \in DOMAIN outcome :
        /\ i < j
        /\ outcome[i].res = "dlq" /\ outcome[j].res = "ok"
        /\ outcome[i].poll = <<i, j>> /\ outcome[j].poll = <<i, j>>
        /\ IterationOver(i)
        /\ j \in Acked /\ j \in committedIds
        /\ pc = "poll_records"


(* a sentinel the loop takes in: it names a batch and a source (line 222) *)
Named(f) == f.batch_id # "" /\ StripLower(f.source) # ""

(* a sentinel whose count field is a number *)
CountParses(f) == SentinelCount(f).present /\ SentinelCount(f).num

(* the ids the poll of the completion stream of this step has returned *)
SentinelsRead == compLastId + 1 .. compLastId'

(* C21 as claimed: every completion entry returned by a poll is acked in    *)
(* the same iteration, and a poll that returns only sentinels that are not  *)
(* usable (no batch_id, no source, or an unparsable count) changes neither  *)
(* expected nor the activity timestamp.                                     *)
C21_MalformedAckedAndIgnored ==
    [][ compLastId' > compLastId =>
          /\ compPending' = {}
          /\ (\A j \in SentinelsRead :
                  ~(Named(compStream[j]) /\ CountParses(compStream[j])))
                => (expected' = expected /\ last_activity' = last_activity) ]_vars

(* C21 as amended: every completion entry returned by a poll is acked in    *)
(* the same iteration; a sentinel without batch_id or without source        *)
(* changes neither expected nor the activity timestamp, while a sentinel    *)
(* that names both and whose count does not parse is taken in with the      *)
(* count 0: it sets expected for its key to 0 and refreshes the activity    *)
(* timestamp.                                                               *)
C21_UnnamedAckedAndIgnored ==
    [][ compLastId' > compLastId =>
          /\ compPending' = {}
          /\ (\A j \in SentinelsRead : ~Named(compStream[j]))
                => (expected' = expected /\ last_activity' = last_activity)
          /\ \A j \in SentinelsRead :
                (Named(compStream[j]) /\ ~CountParses(compStream[j])
                   /\ j = compLastId')
                => /\ expected'[<<compStream[j].batch_id,
                                   StripLower(compStream[j].source)>>] = 0
                   /\ last_activity' = now ]_vars

(* a sentinel without batch_id or source was read, a second after one that  *)
(* names both and before any record entry: it is acked, expected is as the  *)
(* first sentinel left it and the activity timestamp is the older one       *)
C21_Witness ==
    /\ pc = "poll_records"
    /\ compLastId = 2 /\ recLastId = 0
    /\ Named(compStream[1]) /\ ~Named(compStream[2])
    /\ lastReadAt = now /\ last_activity < now
    /\ compPending = {}
    /\ expected = Put(<<>>, <<"B1", "toss">>, 0)


(* the key a sentinel announces *)
SentinelKey(f) == <<f.batch_id, StripLower(f.source)>>

(* the sentinels polled so far that name the key k *)
PolledFor(k) ==
    {j \in 1 .. compLastId : Named(compStream[j]) /\ SentinelKey(compStream[j]) = k}

LastOf(S) == CHOOSE j \in S : \A i \in S : i <= j

(* C22: after any sequence of polled sentinels, expected holds, for every   *)
(* key a polled sentinel names and for no other, the count of the most      *)
(* recently polled sentinel of that key; and processing a polled sentinel   *)
(* again leaves expected as processing it once does.                        *)
C22_LastWriteWins ==
    /\ DOMAIN expected = {SentinelKey(compStream[j]) :
                             j \in {i \in 1 .. compLastId : Named(compStream[i])}}
    /\ \A k \in DOMAIN expected :
          expected[k] = safe_int(SentinelCount(compStream[LastOf(PolledFor(k))]))
    /\ \A j \in 1 .. compLastId :
          AbsorbSentinel(AbsorbSentinel(expected, compStream[j]), compStream[j])
             = AbsorbSentinel(expected, compStream[j])

(* a key was announced with 2 and then with 1: expected holds 1 *)
C22_Witness ==
    /\ compLastId = 2
    /\ compStream[1] = Sentinel("B1", "toss", Num(2), NoCount)
    /\ compStream[2] = Sentinel("B1", "toss", Num(1), NoCount)
    /\ expected = Put(<<>>, <<"B1", "toss">>, 1)

(* the same sentinel was polled twice: expected is as after the first *)
C22_WitnessTwice ==
    /\ compLastId = 2
    /\ compStream[1] = compStream[2]
    /\ expected = AbsorbSentinel(<<>>, compStream[1])
    /\ expected # <<>>


(* an entry whose records array is empty or absent and that carries none of *)
(* the inline single-record fields                                          *)
NoRecords(f) ==
    /\ f.inline = <<>>
    /\ \/ f.records.kind = "absent"
       \/ f.records.kind = "array" /\ f.records.items = <<>>

(* C23: the processing of a record entry whose records array is empty or    *)
(* absent, and that carries no inline single-record fields, writes nothing  *)
(* to the store, leaves done unchanged, writes no dead-letter entry and     *)
(* puts the id on the ack list; once its iteration is over the entry is     *)
(* acked and has no dead-letter entry.                                      *)
C23_EmptyEntrySkipped ==
    [][ /\ \A id \in DOMAIN outcome' \ DOMAIN outcome :
              NoRecords(recStream[id]) =>
                  /\ storeVars' = storeVars
                  /\ done' = done
                  /\ dlq' = dlq
                  /\ ack_r' = Append(ack_r, id)
        /\ \A id \in DOMAIN outcome' :
              (NoRecords(recStream[id]) /\ IterationOver(id)') =>
                  (id \notin recPending' /\ id \notin DlqIds') ]_vars

(* an entry without a records field was read together with an entry that   *)
(* carries a record: it is acked, nothing is dead-lettered, and done counts *)
(* the record of the other entry only                                       *)
C23_Witness ==
    \E i \in DOMAIN outcome, j \in DOMAIN outcome :
        /\ recStream[i] = AbsentEntry /\ recStream[j] = OnlyB
        /\ outcome[i].res = "empty" /\ outcome[j].res = "ok"
        /\ IterationOver(i) /\ i \in Acked
        /\ dlq = <<>>
        /\ done = Put(<<>>, <<"B1", "toss">>, 1)
        /\ Len(dbNews) = 1


Instances == {1, 2}

(* the instances that have done `what` with the entry id *)
Who(id, what) == {i \in Instances : <<id, i, what>> \in trail}

(* C24: with two instances consuming the same groups, every record entry    *)
(* that has been delivered was delivered to exactly one instance, and only  *)
(* that instance has run its try block (written its records) and acked its  *)
(* id; an entry not yet delivered has been handled by neither.              *)
C24_OneOwnerPerEntry ==
    \A id \in DOMAIN recStream :
        /\ Cardinality(Who(id, "read")) = (IF id <= recLastId THEN 1 ELSE 0)
        /\ Who(id, "handled") \subseteq Who(id, "read")
        /\ Who(id, "acked") \subseteq Who(id, "handled")

(* each of the two instances has read, written, committed and acked one of  *)
(* two entries                                                              *)
C24_Witness ==
    /\ Len(recStream) = 2
    /\ \E i \in Instances :
          /\ Who(1, "acked") = {i} /\ Who(2, "acked") = {3 - i}
          /\ Who(1, "read") = {i} /\ Who(2, "read") = {3 - i}
    /\ committedIds = {1, 2}
    /\ outcome[1].res = "ok" /\ outcome[2].res = "ok"
    /\ recPending = {}


(* the dead-letter entries written for the record entry id *)
DeadLettersOf(id) == {i \in DOMAIN dlq : dlq[i].msg_id = id}

(* C25: within one run, at most one dead-letter entry is written per record *)
(* entry; the dead-letter stream is only appended to, what the loop is      *)
(* handed by a read are entries of crawl:records that have no dead-letter   *)
(* entry, and the try block is never run on an entry that has one.          *)
C25_DeadLetterOncePerEntry ==
    [][ /\ \A id \in DOMAIN recStream' : Cardinality(DeadLettersOf(id)') <= 1
        /\ (dlq' = dlq \/ \E e \in Range(dlq') : dlq' = Append(dlq, e))
        /\ \A i \in DOMAIN dlq' :
              dlq'[i].stream = STREAM_RECORDS /\ dlq'[i].msg_id \in DOMAIN outcome'
        /\ (entries' # entries =>
               Range(entries') \subseteq DOMAIN recStream \ DlqIds)
        /\ (outcome' # outcome =>
               \A id \in DlqIds : outcome'[id] = outcome[id]) ]_vars

(* an entry was dead-lettered in one poll and the loop has handled a later  *)
(* poll since: there is still one dead-letter entry, and the dead-lettered  *)
(* entry was not handed to the loop again                                   *)
C25_Witness ==
    \E i \in DOMAIN outcome, j \in DOMAIN outcome :
        /\ outcome[i].res = "dlq"
        /\ outcome[i].poll = <<i>> /\ outcome[j].poll = <<j>>
        /\ i < j
        /\ IterationOver(j)
        /\ Cardinality(DeadLettersOf(i)) = 1
        /\ Len(dlq) = 1


(* the ids the loader has acked on each stream: delivered to the group and  *)
(* no longer in its pending list                                            *)
AckedSentinels == (1 .. compLastId) \ compPending

(* C26: the loader never removes from a stream an entry it has not acked:   *)
(* what delete-after-ack removes are ids acked in the same iteration, and   *)
(* the exit-time trim, on whichever path main() ends, removes no entry that *)
(* is unread or pending.                                                    *)
C26_RemovesOnlyAcked ==
    [][ /\ recDeleted' \subseteq Acked'
        /\ compDeleted' \subseteq AckedSentinels'
        /\ (pc = "xack" => recDeleted' \ recDeleted \subseteq Range(ack_r)) ]_vars


(* C27: when the shutdown evaluation stops the loop on the drained exit or  *)
(* the quiet exit, every entry appended to crawl:records and to             *)
(* crawl:completed before the stop has been delivered to the loader's       *)
(* groups.                                                                  *)
C27_StopsOnlyWhenDrained ==
    [][ (pc # "stopped" /\ pc' = "stopped" /\ exitReason' \in {"drained", "quiet"})
          => (recLastId = Len(recStream) /\ compLastId = Len(compStream)) ]_vars



(* the record entries appended under the key k, and whether the one         *)
(* sentinel of k and all of them have been taken in                         *)
EntriesOf(k) == {id \in DOMAIN recStream : HasKey(id) /\ EntryKey(id) = k}

SetConsumed(k) ==
    /\ compLastId = Len(compStream)
    /\ Cardinality(PolledFor(k)) = 1
    /\ EntriesOf(k) # {}
    /\ EntriesOf(k) \subseteq DOMAIN outcome

(* C28: once the one sentinel of a key (B,S) and its record entries have    *)
(* all been taken in, expected[(B,S)] is the sentinel's count and           *)
(* done[(B,S)] the number of records of the entries processed to their end, *)
(* and all_finished() compares the two, whatever the order in which the     *)
(* sentinel and the entries were polled.                                    *)
C28_OrderIndependent ==
    \A k \in ProgressKeys :
        SetConsumed(k) =>
            LET n     == safe_int(SentinelCount(compStream[LastOf(PolledFor(k))]))
                total == CountRecords(OkIdsOf(k), FALSE)
            IN /\ k \in DOMAIN expected /\ expected[k] = n
               /\ Get0(done, k) = total
               /\ (DOMAIN expected = {k} /\ REQUIRED_SOURCES = {}) =>
                     (all_finished(expected, done) <=> total >= n)

(* the sentinel of count 2 and both one-record entries of the key have been *)
(* taken in and the entries acked: expected and done are 2 and 2            *)
C28_Witness ==
    LET k == <<"B1", "toss">> IN
    /\ SetConsumed(k)
    /\ pc = "poll_records"
    /\ Cardinality(EntriesOf(k)) = 2 /\ EntriesOf(k) \subseteq Acked
    /\ expected[k] = 2 /\ Get0(done, k) = 2
    /\ all_finished(expected, done)

(* the three orders, as seen before the set is consumed: both entries       *)
(* processed while the sentinel waits unread; the sentinel absorbed while   *)
(* both entries wait unread; one entry processed while the sentinel and the *)
(* other entry wait unread (the next poll of crawl:completed comes first)   *)
C28_RecordsFirst ==
    LET k == <<"B1", "toss">> IN
    /\ Len(compStream) = 1 /\ compLastId = 0
    /\ Cardinality(OkIdsOf(k)) = 2 /\ Get0(done, k) = 2
    /\ k \notin DOMAIN expected

C28_SentinelFirst ==
    LET k == <<"B1", "toss">> IN
    /\ compLastId = 1 /\ expected[k] = 2
    /\ Len(recStream) = 2 /\ recLastId = 0
    /\ Get0(done, k) = 0

C28_SentinelBetween ==
    LET k == <<"B1", "toss">> IN
    /\ Len(compStream) = 1 /\ compLastId = 0
    /\ Len(recStream) = 2 /\ recLastId = 1
    /\ Cardinality(OkIdsOf(k)) = 1 /\ Get0(done, k) = 1
    /\ k \notin DOMAIN expected



(* a batch has been published, and every entry of both streams has been     *)
(* delivered, processed to its end, committed and acked                     *)
BatchConsumed ==
    /\ Len(compStream) >= 1 /\ Len(recStream) >= 1
    /\ compLastId = Len(compStream) /\ recLastId = Len(recStream)
    /\ compPending = {} /\ recPending = {}
    /\ DOMAIN outcome = DOMAIN recStream
    /\ \A id \in DOMAIN recStream : outcome[id].res = "ok" /\ id \in committedIds

(* the running instance evaluates its shutdown conditions (lines 334-369)   *)
(* QUIET_S seconds or more after its last activity                          *)
EvaluatesQuiet ==
    /\ pc = "exit_check" /\ pc' # "exit_check" /\ self' = self
    /\ now - last_activity >= QUIET_S

(* C29: with two instances on the same groups and a well-formed batch       *)
(* wholly consumed, committed and acked, a shutdown evaluation an instance  *)
(* makes once it has been quiet for QUIET_S seconds takes it out of its     *)
(* loop through the drained or the quiet exit: no instance is left to wait  *)
(* for the MAX_RUN forced exit.                                             *)
C29_EachInstanceLeaves ==
    [][ (peer # NoPeer /\ BatchConsumed /\ EvaluatesQuiet)
          => (pc' = "stopped" /\ exitReason' \notin {"none", "max_run"}) ]_vars



(* the attempts of run_one so far, and what each of them is worth *)
Launches == Len(codes)

Succeeded(a) == a.kind = "exit" /\ a.code = 0

CodeOf(a) ==
    IF a.kind = "timeout" THEN 124
    ELSE IF a.kind = "raised" THEN 1
    ELSE a.code

(* C30: run_one launches at most retries + 1 times; no attempt follows one  *)
(* that exited with code 0, and run_one then returns rc 0; otherwise it     *)
(* returns after retries + 1 failed attempts with the code of the last one  *)
(* (124 for a timeout, 1 when launching raised).                            *)
C30_RunOneRetries ==
    /\ Launches <= retries + 1
    /\ \A i \in 1 .. Launches - 1 : ~Succeeded(codes[i])
    /\ (Launches > 0 /\ Succeeded(codes[Launches])) =>
          (runPc = "returned" /\ result.rc = Rc(0))
    /\ (runPc = "returned" /\ ~(Launches > 0 /\ Succeeded(codes[Launches]))) =>
          /\ Launches = retries + 1
          /\ Launches > 0 => result.rc = Rc(CodeOf(codes[Launches]))

(* a second attempt succeeded after a timeout; three attempts failed, the   *)
(* last by a launch that raised; the last by a timeout                      *)
C30_Witness ==
    /\ runPc = "returned" /\ retries = 2
    /\ codes = <<TimedOut, Exited(0)>>
    /\ result = [rc |-> Rc(0), attempts |-> 2]

C30_WitnessRaised ==
    /\ runPc = "returned" /\ retries = 2
    /\ codes = <<Exited(2), TimedOut, Raised>>
    /\ result = [rc |-> Rc(1), attempts |-> 3]

C30_WitnessTimeout ==
    /\ runPc = "returned" /\ retries = 1
    /\ codes = <<Exited(1), TimedOut>>
    /\ result = [rc |-> Rc(124), attempts |-> 2]

====
